---- MODULE Spec2Model ----
(***************************************************************************)
(* Gemini-Quizzify: the quiz-generation pipeline.                          *)
(*                                                                         *)
(* QuizGenerator (quiz_generator.py, and its earlier draft                 *)
(* generate_question.py) is modelled as a state machine: construction,     *)
(* the start of generate_quiz, and one step per pass through the body of   *)
(* the retry loop of generate_quiz.  The generation backend is the         *)
(* environment: at every attempt it either raises or returns one of a      *)
(* fixed set of raw strings, which json_loads parses as json.loads does.   *)
(***************************************************************************)
EXTENDS Integers, Sequences, FiniteSets, TLC

VARIABLES
    pc,             \* "new", "ready", "running", "done", "raised", "ctor_failed"
    variant,        \* which source file's QuizGenerator was constructed
    topic,          \* self.topic
    num_questions,  \* self.num_questions
    vectorstore,    \* self.vectorstore
    llm,            \* self.llm
    question_bank,  \* self.question_bank
    slot,           \* position of the outer loop of generate_quiz, from 1
    attempt,        \* position of the inner loop of generate_quiz, from 1
    calls,          \* chain.invoke calls made in the current run
    error,          \* the exception that left the last operation, or "none"
    printed,        \* the line the latest step printed, or "" if it printed none
    backend,        \* what chain.invoke did in the latest step, "none" if not called
    requested,      \* the num_questions argument of the latest constructor call
    topic_arg,      \* the topic argument of the latest constructor call
    queried,        \* the input of chain.invoke in the latest step, if it was called
    exhausted,      \* slots of the current run whose tenth pass did not accept
    stub,           \* the stubbed backend's script, << >> for a free backend
    prompt,         \* the prompt the latest chain.invoke formatted, or NoPrompt
    questions,      \* QuizManager.questions
    total_questions,\* QuizManager.total_questions
    question_index, \* st.session_state["question_index"]
    nav_op,         \* the QuizManager method called in the latest step, with its argument
    returned,       \* what that method returned (None when it returned nothing)
    shared          \* QuizManager.questions is the list object self.question_bank

\* the state of the presentation layer and its QuizManager
navVars == << questions, total_questions, question_index, nav_op, returned,
              shared >>

vars == << pc, variant, topic, num_questions, vectorstore, llm, question_bank,
           slot, attempt, calls, error, printed, backend, requested,
           topic_arg, queried, exhausted, stub,
                    prompt, navVars >>

----------------------------------------------------------------------------
(* Program constants *)

\* `if num_questions > 10` in both constructors
MaxQuestions == 10

\* `for _ in range(0, 10)` in generate_quiz
MaxAttempts == 10

DefaultTopic == "General Knowledge"

----------------------------------------------------------------------------
(* Python values, as far as generate_quiz looks at them.  Every value is a  *)
(* record of the same shape; the fields beyond `type` are meaningful only   *)
(* for the types that have them.                                            *)

PyValue(type, size, keys, question, choices, answer) ==
    [type |-> type, size |-> size, keys |-> keys, question |-> question,
     choices |-> choices, answer |-> answer]

PyNone      == PyValue("NoneType", 0, {}, "", << >>, "")
PyInt(n)    == PyValue("int", n, {}, "", << >>, "")
PyStr(n)    == PyValue("str", n, {}, "", << >>, "")
PyList(n)   == PyValue("list", n, {}, "", << >>, "")
PyEmptyDict == PyValue("dict", 0, {}, "", << >>, "")

AllKeys == {"question", "choices", "answer", "explanation"}

\* a dict with the four keys of the prompt's structure; `choices` keeps the
\* "key" of every entry of the list, in order
QuestionDict(text, choices, answer) ==
    PyValue("dict", 4, AllKeys, text, choices, answer)

\* a dict that has no "question" key
NoQuestionDict ==
    PyValue("dict", 3, AllKeys \ {"question"}, "", <<"A", "B", "C", "D">>, "A")

ABCD == <<"A", "B", "C", "D">>

\* bool(value)
Truthy(v) == v.size # 0

----------------------------------------------------------------------------
(* The generation backend.  chain.invoke either raises or returns a string. *)
(* The strings below are the ones the backend is taken to produce; what     *)
(* json.loads makes of each is tabulated in json_loads.                     *)

RawProse      == "Sure! Here is your question: What is ATP?"
RawTruncated  == "{\"question\": \"Q1\", \"choices\": [{\"key\": \"A\"},"
RawNull       == "null"
RawEmptyDict  == "{}"
RawEmptyList  == "[]"
RawNumber     == "7"
RawString     == "\"Q1\""
RawList       == "[\"Q1\"]"
RawNoQuestion == "{\"choices\": [{\"key\": \"A\"}, {\"key\": \"B\"}, {\"key\": \"C\"}, {\"key\": \"D\"}], \"answer\": \"A\", \"explanation\": \"e\"}"
RawEmptyText  == "{\"question\": \"\", \"choices\": [{\"key\": \"A\"}, {\"key\": \"B\"}, {\"key\": \"C\"}, {\"key\": \"D\"}], \"answer\": \"A\", \"explanation\": \"e\"}"
RawQ1         == "{\"question\": \"Q1\", \"choices\": [{\"key\": \"A\"}, {\"key\": \"B\"}, {\"key\": \"C\"}, {\"key\": \"D\"}], \"answer\": \"A\", \"explanation\": \"e\"}"
RawQ1Lower    == "{\"question\": \"q1\", \"choices\": [{\"key\": \"A\"}, {\"key\": \"B\"}, {\"key\": \"C\"}, {\"key\": \"D\"}], \"answer\": \"B\", \"explanation\": \"e\"}"
RawQ1Space    == "{\"question\": \"Q1 \", \"choices\": [{\"key\": \"A\"}, {\"key\": \"B\"}, {\"key\": \"C\"}, {\"key\": \"D\"}], \"answer\": \"C\", \"explanation\": \"e\"}"
RawQ2         == "{\"question\": \"Q2\", \"choices\": [{\"key\": \"A\"}, {\"key\": \"B\"}, {\"key\": \"C\"}, {\"key\": \"D\"}], \"answer\": \"D\", \"explanation\": \"e\"}"
RawQ2Three    == "{\"question\": \"Q2\", \"choices\": [{\"key\": \"A\"}, {\"key\": \"B\"}, {\"key\": \"C\"}], \"answer\": \"A\", \"explanation\": \"e\"}"
RawQ2DupKey   == "{\"question\": \"Q2\", \"choices\": [{\"key\": \"A\"}, {\"key\": \"A\"}, {\"key\": \"B\"}, {\"key\": \"C\"}], \"answer\": \"A\", \"explanation\": \"e\"}"
RawQ2AnswerE  == "{\"question\": \"Q2\", \"choices\": [{\"key\": \"A\"}, {\"key\": \"B\"}, {\"key\": \"C\"}, {\"key\": \"D\"}], \"answer\": \"E\", \"explanation\": \"e\"}"

RawOutputs ==
    { RawProse, RawTruncated, RawNull, RawEmptyDict, RawEmptyList, RawNumber, RawString,
      RawList, RawNoQuestion, RawEmptyText, RawQ1, RawQ1Lower, RawQ2,
      RawQ2Three, RawQ2DupKey, RawQ2AnswerE }

\* the outputs that are not JSON documents (RFC 8259)
NotJSON == {RawProse, RawTruncated}

\* what one chain.invoke can do: raise, or return a string
BackendRaises   == [raises |-> TRUE, text |-> ""]
BackendReturns(s) == [raises |-> FALSE, text |-> s]
BackendOutcomes == {BackendRaises} \cup {BackendReturns(s) : s \in RawOutputs}

\* the outcome as the caller of chain.invoke can tell it apart
OutcomeKind(out) ==
    IF out.raises THEN "raised"
    ELSE IF out.text \in NotJSON THEN "not_json" ELSE "json"

\* json.loads(question_str): the parsed value, or JSONDecodeError
Decoded(v)      == [ok |-> TRUE, value |-> v]
JSONDecodeError == [ok |-> FALSE, value |-> PyNone]

json_loads(s) ==
    CASE s = RawNull       -> Decoded(PyNone)
      [] s = RawEmptyDict  -> Decoded(PyEmptyDict)
      [] s = RawEmptyList  -> Decoded(PyList(0))
      [] s = RawNumber     -> Decoded(PyInt(7))
      [] s = RawString     -> Decoded(PyStr(2))
      [] s = RawList       -> Decoded(PyList(1))
      [] s = RawNoQuestion -> Decoded(NoQuestionDict)
      [] s = RawEmptyText  -> Decoded(QuestionDict("", ABCD, "A"))
      [] s = RawQ1         -> Decoded(QuestionDict("Q1", ABCD, "A"))
      [] s = RawQ1Lower    -> Decoded(QuestionDict("q1", ABCD, "B"))
      [] s = RawQ1Space    -> Decoded(QuestionDict("Q1 ", ABCD, "C"))
      [] s = RawQ2         -> Decoded(QuestionDict("Q2", ABCD, "D"))
      [] s = RawQ2Three    -> Decoded(QuestionDict("Q2", <<"A", "B", "C">>, "A"))
      [] s = RawQ2DupKey   -> Decoded(QuestionDict("Q2", <<"A", "A", "B", "C">>, "A"))
      [] s = RawQ2AnswerE  -> Decoded(QuestionDict("Q2", ABCD, "E"))
      [] OTHER             -> JSONDecodeError

----------------------------------------------------------------------------
(* validate_question *)

\* question['question']: the exception it raises, or "none"
SubscriptError(v) ==
    IF v.type = "dict"
    THEN IF "question" \in v.keys THEN "none" ELSE "KeyError"
    ELSE "TypeError"

\* the loop over self.question_bank: FALSE as soon as one text is equal
RECURSIVE NoEqualText(_, _, _)
NoEqualText(bank, text, i) ==
    IF i > Len(bank) THEN TRUE
    ELSE IF bank[i].question = text THEN FALSE
    ELSE NoEqualText(bank, text, i + 1)

\* a text with its letters lowered and its trailing whitespace removed
Normalised(text) ==
    CASE text = "Q1"  -> "q1"
      [] text = "Q1 " -> "q1"
      [] text = "Q2"  -> "q2"
      [] OTHER        -> text

\* validate_question comparing the texts after normalising them
validate_question_normalised(bank, q) ==
    /\ q.question # ""
    /\ \A i \in 1..Len(bank) :
          Normalised(bank[i].question) # Normalised(q.question)

\* validate_question comparing with the latest Question of the bank only
validate_question_last_only(bank, q) ==
    IF q.question = "" THEN FALSE
    ELSE Len(bank) = 0 \/ bank[Len(bank)].question # q.question

\* validate_question without the scan of the bank
validate_question_no_scan(bank, q) == q.question # ""

\* validate_question(question), for a question whose subscript does not raise
validate_question(bank, q) ==
    IF q.question = "" THEN FALSE
    ELSE NoEqualText(bank, q.question, 1)

----------------------------------------------------------------------------
(* Inputs of the constructor *)

\* bound of the model: the largest in-range num_questions whose runs are
\* explored together with every other input
MaxSmallCount == 3

\* counts below, inside and just above the accepted range
NumQuestionsInputs == (-1 .. MaxSmallCount) \cup {MaxQuestions + 1}

\* the two sides of the `> 10` boundary
BoundaryCounts == {MaxQuestions, MaxQuestions + 1}

\* topic=None, and topic given as a string
TopicNone    == [none |-> TRUE, text |-> ""]
TopicStr(t)  == [none |-> FALSE, text |-> t]
TopicInputs  == {TopicNone, TopicStr(""), TopicStr("   "), TopicStr("Photosynthesis")}

\* vectorstore=None, a ChromaCollectionCreator whose db was created, and one
\* whose db is still None
VectorstoreInputs == {"None", "populated", "unpopulated"}

Variants == {"quiz_generator", "generate_question"}

\* the output fields a template tells the backend to produce, and the
\* placeholders it leaves for PromptTemplate to fill
OutputFields == {"question", "choices", "answer", "explanation"}

\* self.system_template, assigned in both constructors
SystemTemplate == [names |-> OutputFields, slots |-> {"topic", "context"}]

\* the local system_template of generate_question.py:
\* "Generate a question based on the topic: {topic} and the context: {context}"
LocalTemplate == [names |-> {}, slots |-> {"topic", "context"}]

\* the template handed to PromptTemplate.from_template
PromptTemplateOf(v) ==
    IF v = "quiz_generator" THEN SystemTemplate ELSE LocalTemplate

NoPrompt == [sent |-> FALSE, names |-> {}, topic |-> "", context |-> "none"]

\* what the chain sends: the template with {topic} filled by the input of
\* chain.invoke and {context} by what the retriever returned for it
Format(template, t) ==
    [sent    |-> TRUE,
     names   |-> template.names,
     topic   |-> IF "topic" \in template.slots THEN t ELSE "",
     context |-> IF "context" \in template.slots THEN "retrieved" ELSE "none"]

\* the input chain.invoke was given: none yet, or a topic
NoQuery  == [asked |-> FALSE, topic |-> ""]
Query(t) == [asked |-> TRUE, topic |-> t]

\* a call of a QuizManager method: none yet, or the method and its argument
NoCall        == [op |-> "none", arg |-> 0]
Call(op, arg) == [op |-> op, arg |-> arg]

----------------------------------------------------------------------------
InitGenerator ==
    /\ pc = "new"
    /\ variant = "quiz_generator"
    /\ topic = DefaultTopic
    /\ num_questions = 1
    /\ vectorstore = "None"
    /\ llm = "None"
    /\ question_bank = << >>
    /\ slot = 1
    /\ attempt = 1
    /\ calls = 0
    /\ error = "none"
    /\ printed = ""
    /\ backend = "none"
    /\ requested = 1
    /\ topic_arg = TopicNone
    /\ queried = NoQuery
    /\ exhausted = 0
    /\ prompt = NoPrompt

\* no QuizManager yet, no cursor in the session state
InitNavigator ==
    /\ questions = << >>
    /\ total_questions = 0
    /\ question_index = 0
    /\ nav_op = NoCall
    /\ returned = PyNone
    /\ shared = FALSE

\* before construction, with the real (free) backend
Init ==
    /\ InitGenerator
    /\ InitNavigator
    /\ stub = << >>

\* only an absent topic takes the default
TopicIsNone(t) == t.none

\* `not topic`
TopicIsFalsy(t) == t.none \/ t.text = ""

\* the check written as `>= 10`
CountAcceptedBelowTen(n) == ~(n >= MaxQuestions)

\* the check of num_questions in __init__: TRUE when no ValueError is raised
CountAccepted(n) == ~(n > MaxQuestions)

\* QuizGenerator(topic, num_questions, vectorstore), in either file
Construct(v, t, n, vs) ==
    /\ pc = "new"
    /\ variant' = v
    /\ requested' = n
    /\ topic_arg' = t
    /\ IF CountAccepted(n)
       THEN /\ pc' = "ready"
            /\ topic' = IF TopicIsFalsy(t) THEN DefaultTopic ELSE t.text
            /\ num_questions' = n
            /\ vectorstore' = vs
            /\ llm' = "None"
            /\ question_bank' = << >>
            /\ error' = "none"
       ELSE /\ pc' = "ctor_failed"
            /\ error' = "ValueError"
            /\ UNCHANGED << topic, num_questions, vectorstore, llm, question_bank >>
    /\ UNCHANGED << slot, attempt, calls, printed, backend, queried,
                    exhausted, stub,
                    prompt, navVars >>

----------------------------------------------------------------------------
(* generate_quiz *)

Position(p, s, a) == [pc |-> p, slot |-> s, attempt |-> a]

\* the next slot going on from the attempt number the last one reached
NextSlotCarriesAttempt(s, a, n) ==
    IF s < n THEN Position("running", s + 1, a) ELSE Position("done", s, a)

\* the outer `for _ in range(self.num_questions)` moving on after slot s
NextSlot(s, a, n) ==
    IF s < n THEN Position("running", s + 1, 1) ELSE Position("done", s, a)

\* `continue` that starts the same pass again
ContinueSamePass(s, a, n) == Position("running", s, a)

\* `continue` leaving the inner loop as `break` does
ContinueLeavesSlot(s, a, n) == NextSlot(s, a, n)

\* `continue` in the inner `for _ in range(0, 10)`
Continue(s, a, n) ==
    IF a < MaxAttempts THEN Position("running", s, a + 1) ELSE NextSlot(s, a, n)

\* `break` left out: the inner loop goes on after an acceptance
BreakStaysInSlot(s, a, n) ==
    IF a < MaxAttempts THEN Position("running", s, a + 1) ELSE NextSlot(s, a, n)

\* `break` out of the inner loop
Break(s, a, n) == NextSlot(s, a, n)

MoveTo(p) ==
    /\ pc' = p.pc
    /\ slot' = p.slot
    /\ attempt' = p.attempt

\* an exception leaves generate_quiz
Raise(e) ==
    /\ pc' = "raised"
    /\ error' = e
    /\ printed' = ""
    /\ UNCHANGED << slot, attempt, question_bank, exhausted >>

MsgDecode    == "Failed to decode question JSON."
MsgAccepted  == "Successfully generated unique question"
MsgRejected  == "Duplicate or invalid question detected."

\* the bank emptied in place, as self.question_bank.clear() does: whoever
\* holds the list sees it empty
ClearBank(held) == << >>

\* `self.question_bank = []` seen by whoever holds the list that was the
\* bank until now: the attribute is bound to a new list, the list held
\* keeps its contents
ResetBank(held) == held

\* generate_quiz without `self.question_bank = []`
StartQuizKeepsBank ==
    /\ pc \in {"ready", "done", "raised"}
    /\ variant = "quiz_generator"
    /\ calls' = 0
    /\ error' = "none"
    /\ printed' = ""
    /\ backend' = "none"
    /\ slot' = 1
    /\ attempt' = 1
    /\ pc' = IF num_questions >= 1 THEN "running" ELSE "done"
    /\ queried' = NoQuery
    /\ prompt' = NoPrompt
    /\ exhausted' = 0
    /\ UNCHANGED << variant, topic, num_questions, vectorstore, llm, requested,
                    topic_arg, stub, question_bank, navVars >>

\* entry of generate_quiz: the bank is reset, the loops start
StartQuiz ==
    /\ pc \in {"ready", "done", "raised"}
    /\ variant = "quiz_generator"
    /\ question_bank' = << >>
    /\ calls' = 0
    /\ error' = "none"
    /\ printed' = ""
    /\ backend' = "none"
    /\ slot' = 1
    /\ attempt' = 1
    /\ pc' = IF num_questions >= 1 THEN "running" ELSE "done"
    /\ queried' = NoQuery
    /\ prompt' = NoPrompt
    /\ exhausted' = 0
    /\ questions' = IF shared THEN ResetBank(questions) ELSE questions
    /\ shared' = FALSE
    /\ UNCHANGED << variant, topic, num_questions, vectorstore, llm, requested,
                    topic_arg, stub, total_questions, question_index, nav_op,
                    returned >>

Running == pc = "running" /\ variant = "quiz_generator"

\* init_llm raises: VertexAI(...) is not guarded in quiz_generator.py
LLMInitRaises ==
    /\ Running
    /\ llm = "None"
    /\ Raise("LLMInitError")
    /\ backend' = "none"
    /\ UNCHANGED << variant, topic, num_questions, vectorstore, llm, calls,
                    requested, topic_arg, queried, stub,
                    prompt, navVars >>

\* `if not self.vectorstore: raise ValueError`
VectorstoreMissing ==
    /\ Running
    /\ vectorstore = "None"
    /\ llm' = "VertexAI"
    /\ Raise("ValueError")
    /\ backend' = "none"
    /\ UNCHANGED << variant, topic, num_questions, vectorstore, calls, requested,
                    topic_arg, queried, stub,
                    prompt, navVars >>

\* ChromaCollectionCreator.as_retriever(): nothing is raised; the value is
\* the retriever of the collection, or None (after st.error) when
\* create_chroma_collection left self.db at None
as_retriever(vs) ==
    [error |-> "none",
     value |-> IF vs = "populated" THEN "retriever" ELSE "None"]

\* as_retriever() returned None: RunnableParallel cannot take it
RetrieverMissing ==
    /\ Running
    /\ vectorstore # "None"
    /\ as_retriever(vectorstore).value = "None"
    /\ llm' = "VertexAI"
    /\ Raise("TypeError")
    /\ backend' = "none"
    /\ UNCHANGED << variant, topic, num_questions, vectorstore, calls, requested,
                    topic_arg, queried, stub,
                    prompt, navVars >>

\* 1 when a pass that did not accept was the last of the inner loop, which
\* then ends without `break`: the slot stays unfilled
LoopEndsUnfilled(a) == IF a = MaxAttempts THEN 1 ELSE 0

\* what chain.invoke can do at this point: anything for a free backend, the
\* next line of the script (replayed from its start when it runs out) for a
\* stubbed one
Responses ==
    IF stub = << >> THEN BackendOutcomes
    ELSE {BackendReturns(stub[(calls % Len(stub)) + 1])}

\* the accepted question put in front of the bank
Prepended(bank, q) == << q >> \o bank

\* self.question_bank.append(question)
Appended(bank, q) == Append(bank, q)

\* the rest of the loop body, once chain.invoke was entered with outcome out
AttemptBody(out) ==
    /\ calls' = calls + 1
    /\ backend' = OutcomeKind(out)
    /\ IF out.raises
       THEN Raise("BackendError")
       ELSE LET d == json_loads(out.text)
                q == d.value
            IN  IF ~d.ok
                THEN /\ printed' = MsgDecode
                     /\ MoveTo(Continue(slot, attempt, num_questions))
                     /\ exhausted' = exhausted + LoopEndsUnfilled(attempt)
                     /\ UNCHANGED << question_bank, error >>
                ELSE IF ~Truthy(q)
                THEN /\ printed' = MsgRejected
                     /\ MoveTo(Continue(slot, attempt, num_questions))
                     /\ exhausted' = exhausted + LoopEndsUnfilled(attempt)
                     /\ UNCHANGED << question_bank, error >>
                ELSE IF SubscriptError(q) # "none"
                THEN Raise(SubscriptError(q))
                ELSE IF validate_question(question_bank, q)
                THEN /\ printed' = MsgAccepted
                     /\ question_bank' = Appended(question_bank, q)
                     /\ MoveTo(Break(slot, attempt, num_questions))
                     /\ UNCHANGED << error, exhausted >>
                ELSE /\ printed' = MsgRejected
                     /\ MoveTo(Continue(slot, attempt, num_questions))
                     /\ exhausted' = exhausted + LoopEndsUnfilled(attempt)
                     /\ UNCHANGED << question_bank, error >>

\* one pass through the body of the inner loop with a usable vectorstore
Attempt ==
    /\ Running
    /\ vectorstore # "None"
    /\ as_retriever(vectorstore).value # "None"
    /\ llm' = "VertexAI"
    /\ queried' = Query(topic)
    /\ prompt' = Format(PromptTemplateOf(variant), topic)
    /\ \E out \in Responses : AttemptBody(out)
    /\ questions' = IF shared THEN question_bank' ELSE questions
    /\ UNCHANGED << variant, topic, num_questions, vectorstore, requested,
                    topic_arg, stub, total_questions, question_index, nav_op,
                    returned, shared >>

----------------------------------------------------------------------------
(* generate_question.py: generate_question_with_vectorstore, called directly *)

MsgLLMInit == "Error initializing LLM"

\* init_llm of generate_question.py catches the exception and prints it, so
\* self.llm keeps the value it had; the checks that follow raise in turn
GenerateQuestion ==
    /\ pc \in {"ready", "done", "raised"}
    /\ variant = "generate_question"
    /\ \E initOk \in BOOLEAN :
         LET llmNow == IF initOk THEN "VertexAI" ELSE llm
         IN  /\ llm' = llmNow
             /\ printed' = IF initOk THEN "" ELSE MsgLLMInit
             /\ IF llmNow = "None"
                THEN pc' = "raised" /\ error' = "Exception"
                     /\ calls' = 0 /\ backend' = "none" /\ queried' = NoQuery
                     /\ prompt' = NoPrompt
                ELSE IF vectorstore = "None"
                THEN pc' = "raised" /\ error' = "ValueError"
                     /\ calls' = 0 /\ backend' = "none" /\ queried' = NoQuery
                     /\ prompt' = NoPrompt
                ELSE IF as_retriever(vectorstore).value = "None"
                THEN pc' = "raised" /\ error' = "Exception"
                     /\ calls' = 0 /\ backend' = "none" /\ queried' = NoQuery
                     /\ prompt' = NoPrompt
                ELSE \E out \in BackendOutcomes :
                        /\ calls' = 1
                        /\ queried' = Query(topic)
                        /\ prompt' = Format(PromptTemplateOf(variant), topic)
                        /\ backend' = OutcomeKind(out)
                        /\ IF out.raises
                           THEN pc' = "raised" /\ error' = "BackendError"
                           ELSE pc' = "done" /\ error' = "none"
    /\ UNCHANGED << variant, topic, num_questions, vectorstore, question_bank,
                    slot, attempt, requested, topic_arg, exhausted, stub,
                    navVars >>

----------------------------------------------------------------------------
\* the steps of a constructed generator
Use ==
    \/ StartQuiz
    \/ LLMInitRaises
    \/ VectorstoreMissing
    \/ RetrieverMissing
    \/ Attempt
    \/ GenerateQuestion

Next ==
    \/ \E v \in Variants, t \in TopicInputs, n \in NumQuestionsInputs,
          vs \in VectorstoreInputs : Construct(v, t, n, vs)
    \/ Use

Spec == Init /\ [][Next]_vars

\* the same program, constructed with the counts at the `> 10` boundary
NextBoundary ==
    \/ \E v \in Variants, n \in BoundaryCounts, vs \in VectorstoreInputs :
          Construct(v, TopicNone, n, vs)
    \/ Use

SpecBoundary == Init /\ [][NextBoundary]_vars

----------------------------------------------------------------------------
(* generate_quiz as a process that keeps running once it is entered *)

\* one step of the loops of generate_quiz
RunStep ==
    \/ LLMInitRaises
    \/ VectorstoreMissing
    \/ RetrieverMissing
    \/ Attempt

NextRun ==
    \/ \E n \in NumQuestionsInputs, vs \in VectorstoreInputs :
          Construct("quiz_generator", TopicNone, n, vs)
    \/ StartQuiz
    \/ RunStep

\* the interpreter goes on with the loop, and every chain.invoke comes back
\* (with a string or with an exception)
SpecRun == Init /\ [][NextRun]_vars /\ WF_vars(RunStep)

----------------------------------------------------------------------------
(* The same program against a stubbed backend that replays a script *)

\* bound of the model: the longest script
MaxScript == 3

ScriptLines == {RawQ1, RawQ1Lower, RawQ1Space, RawQ2, RawProse}

RECURSIVE ScriptsOfLen(_)
ScriptsOfLen(k) ==
    IF k = 0 THEN {<< >>}
    ELSE {Append(sc, l) : sc \in ScriptsOfLen(k - 1), l \in ScriptLines}

StubScripts == UNION {ScriptsOfLen(k) : k \in 1..MaxScript}

InitStub ==
    /\ InitGenerator
    /\ InitNavigator
    /\ stub \in StubScripts

SpecStub == InitStub /\ [][Next]_vars

----------------------------------------------------------------------------
(* Properties of generate_quiz *)

InRun == variant = "quiz_generator" /\ pc \in {"running", "done", "raised"}

\* the Question shape of the prompt: four choices keyed A, B, C, D, no key
\* twice, and an answer that is one of the keys
WellFormed(q) ==
    /\ q.type = "dict"
    /\ AllKeys \subseteq q.keys
    /\ q.question # ""
    /\ Len(q.choices) = 4
    /\ {q.choices[i] : i \in 1..Len(q.choices)} = {"A", "B", "C", "D"}
    /\ q.answer \in {"A", "B", "C", "D"}

\* C1: at every point of a run, and in the bank it returns, no two Questions
\* of the question bank have equal question text.
C1_UniqueTexts ==
    \A i, j \in 1..Len(question_bank) :
        i # j => question_bank[i].question # question_bank[j].question

\* C1 witness: a run has ended with three Questions after at least one
\* attempt was turned down.
C1_Witness ==
    /\ pc = "done"
    /\ Len(question_bank) = 3
    /\ calls > 3

\* C2: for 1 <= num_questions <= 10 the bank never holds more Questions than
\* num_questions, and never more than one per slot passed.
C2_BankWithinCount ==
    (InRun /\ num_questions \in 1..MaxQuestions) =>
        /\ Len(question_bank) <= num_questions
        /\ Len(question_bank) <= slot
        /\ (pc = "running" => Len(question_bank) < slot)

\* C2 witness: a run for two questions has ended with a full bank although
\* the backend was called more than twice.
C2_Witness ==
    /\ pc = "done"
    /\ num_questions = 2
    /\ Len(question_bank) = 2
    /\ calls > 2

\* C3: every Question stored in the question bank is fully well-formed.
C3_StoredWellFormed ==
    \A i \in 1..Len(question_bank) : WellFormed(question_bank[i])

\* C4: a failure of the backend invocation never leaves generate_quiz as an
\* exception.
C4_BackendFailureHandled ==
    ~(InRun /\ pc = "raised" /\ backend = "raised")

\* C5: a backend output that is valid JSON but violates the Question schema
\* is never fatal to the run.
C5_SchemaViolationRecoverable ==
    ~(InRun /\ pc = "raised" /\ backend = "json")

\* C6: an attempt whose backend output is not valid JSON prints the decode
\* failure, leaves the bank and the error state alone, counts as one
\* invocation and one attempt of the slot, and the run goes on: to the next
\* attempt of the slot, or past the slot when it was the last attempt.
C6_MalformedRetries ==
    [][ (Running /\ backend' = "not_json") =>
            /\ printed' = MsgDecode
            /\ question_bank' = question_bank
            /\ error' = "none"
            /\ calls' = calls + 1
            /\ pc' \in {"running", "done"}
            /\ (attempt < MaxAttempts =>
                    pc' = "running" /\ slot' = slot /\ attempt' = attempt + 1)
            /\ (attempt = MaxAttempts /\ slot < num_questions =>
                    pc' = "running" /\ slot' = slot + 1 /\ attempt' = 1)
            /\ (attempt = MaxAttempts /\ slot >= num_questions => pc' = "done")
      ]_vars

\* C6 witness: a malformed output was just retried inside a slot that
\* already follows an accepted Question.
C6_Witness ==
    /\ pc = "running"
    /\ backend = "not_json"
    /\ printed = MsgDecode
    /\ attempt > 1
    /\ Len(question_bank) = 1

\* C7: in any run the backend is invoked at most num_questions x 10 times and
\* no slot gets more than 10 attempts.
C7_CallsWithinBudget ==
    InRun =>
        /\ calls <= num_questions * MaxAttempts
        /\ attempt \in 1..MaxAttempts

\* C8: without a vectorstore generate_quiz returns no bank: it raises at its
\* first attempt, before any backend invocation.
C8_NoVectorstoreIsFatal ==
    (InRun /\ vectorstore = "None") =>
        /\ pc # "done"
        /\ calls = 0
        /\ backend = "none"
        /\ slot = 1
        /\ attempt = 1

\* C9: a constructor call with num_questions > 10 raises ValueError and
\* leaves no generator to run, so nothing is generated and the backend is
\* not called; a call with num_questions = 10 succeeds.
C9_CountAboveTenRejected ==
    pc # "new" =>
        /\ (requested > MaxQuestions <=> pc = "ctor_failed")
        /\ (requested = MaxQuestions => pc # "ctor_failed")
        /\ (pc = "ctor_failed" =>
                /\ error = "ValueError"
                /\ calls = 0
                /\ backend = "none"
                /\ question_bank = << >>
                /\ ~ENABLED Use)

\* C9 witness: the constructor was called with 11 and raised.
C9_Witness ==
    /\ pc = "ctor_failed"
    /\ requested = MaxQuestions + 1

\* C10: a constructor call with num_questions below 1 is rejected, so no
\* generator with a count outside [1,10] runs generate_quiz.
C10_CountBelowOneRejected ==
    /\ (pc # "new" /\ requested < 1 => pc = "ctor_failed")
    /\ (InRun => num_questions \in 1..MaxQuestions)

\* With a count the constructor should accept, the budget of C7 and the
\* fatal start of C8 both hold: they fail only for the counts below 1 that
\* the constructor lets through (C10).
InRangeBudgetAndFatalStart ==
    (InRun /\ num_questions \in 1..MaxQuestions) =>
        /\ calls <= num_questions * MaxAttempts
        /\ calls <= (slot - 1) * MaxAttempts + attempt
        /\ attempt \in 1..MaxAttempts
        /\ (vectorstore = "None" =>
                pc # "done" /\ calls = 0 /\ backend = "none"
                /\ slot = 1 /\ attempt = 1)

----------------------------------------------------------------------------
(* Scenarios with a stubbed backend *)

\* the script line decodes to a Question of the prompt's shape
SchemaValid(l) == json_loads(l).ok /\ WellFormed(json_loads(l).value)

TextOf(l) == json_loads(l).value.question

\* every response of the stub is schema-valid and carries the same text
SameTextStub ==
    /\ stub # << >>
    /\ \A i \in 1..Len(stub) :
          SchemaValid(stub[i]) /\ TextOf(stub[i]) = TextOf(stub[1])

\* C11: when the backend always returns a schema-valid payload with the same
\* question text and num_questions >= 2, slot 1 accepts it, every later slot
\* spends its 10 attempts on rejected duplicates, and the run ends normally
\* with a bank of exactly that one Question.
C11_SameTextFillsOneSlot ==
    (InRun /\ SameTextStub /\ num_questions >= 2 /\ calls >= 1) =>
        /\ pc # "raised"
        /\ Len(question_bank) = 1
        /\ question_bank[1].question = TextOf(stub[1])
        /\ (calls >= 2 => printed = MsgRejected)
        /\ (pc = "running" =>
                /\ slot >= 2
                /\ exhausted = slot - 2
                /\ calls = 1 + (slot - 2) * MaxAttempts + (attempt - 1))
        /\ (pc = "done" =>
                /\ exhausted = num_questions - 1
                /\ calls = 1 + (num_questions - 1) * MaxAttempts)

\* C11 witness: a run for three questions against such a stub has ended with
\* one Question after 21 invocations.
C11_Witness ==
    /\ pc = "done"
    /\ SameTextStub
    /\ num_questions = 3
    /\ Len(question_bank) = 1
    /\ calls = 21
    /\ exhausted = 2

\* C12: when a run completes, the bank holds num_questions minus the number
\* of exhausted slots, and it is shorter than requested exactly when some
\* slot was exhausted.
C12_LengthIsCountMinusExhausted ==
    (variant = "quiz_generator" /\ pc = "done") =>
        /\ Len(question_bank) = num_questions - exhausted
        /\ (Len(question_bank) < num_questions <=> exhausted >= 1)

\* With a count the constructor should accept, the accounting of C12 holds
\* at the end of every run, and slot by slot during it: C12 fails only for
\* the negative counts the constructor lets through (C10).
InRangeLengthAccounting ==
    (InRun /\ num_questions \in 1..MaxQuestions) =>
        /\ (pc = "running" => Len(question_bank) = (slot - 1) - exhausted)
        /\ (pc = "done" =>
                /\ Len(question_bank) = num_questions - exhausted
                /\ (Len(question_bank) < num_questions <=> exhausted >= 1))

\* every response of the stub is schema-valid, no two carry the same text,
\* and the script is long enough for the run not to replay it
UniqueTextStub ==
    /\ stub # << >>
    /\ Len(stub) >= num_questions
    /\ \A i \in 1..Len(stub) : SchemaValid(stub[i])
    /\ \A i, j \in 1..Len(stub) : i # j => TextOf(stub[i]) # TextOf(stub[j])

\* the bank is the stub's first n responses, decoded, in order
BankIsFirstResponses(n) ==
    /\ Len(question_bank) = n
    /\ \A i \in 1..Len(question_bank) :
          i <= Len(stub) /\ question_bank[i] = json_loads(stub[i]).value

\* C13: when every backend response is schema-valid with a text not seen
\* before, generate_quiz returns exactly num_questions Questions, in the
\* order generated, after exactly num_questions invocations.
C13_UniqueResponsesFillEverySlot ==
    (variant = "quiz_generator" /\ pc = "done" /\ UniqueTextStub) =>
        /\ BankIsFirstResponses(num_questions)
        /\ calls = num_questions
        /\ exhausted = 0

\* With a count the constructor should accept, C13 holds, and every pass of
\* such a run is an acceptance: C13 fails only for the negative counts the
\* constructor lets through (C10).
InRangeUniqueResponsesFillEverySlot ==
    (InRun /\ UniqueTextStub /\ num_questions \in 1..MaxQuestions
           /\ vectorstore = "populated" /\ error # "LLMInitError") =>
        /\ pc # "raised"
        /\ exhausted = 0
        /\ (calls >= 1 => printed = MsgAccepted)
        /\ (pc = "running" =>
                attempt = 1 /\ calls = slot - 1 /\ BankIsFirstResponses(slot - 1))
        /\ (pc = "done" =>
                calls = num_questions /\ BankIsFirstResponses(num_questions))

----------------------------------------------------------------------------
(* QuizManager (quiz_manager.py) and the cursor the presentation layer      *)
(* keeps in st.session_state["question_index"]                              *)

\* bounds of the model: the longest bank handed to QuizManager, and the
\* largest magnitude of an index argument or of the initial cursor
MaxTotal == 3
MaxIndex == 7

IndexInputs     == -MaxIndex .. MaxIndex
DirectionInputs == {1, -1}

NavTexts == <<"Q1", "q1", "Q2", "Q3", "Q4">>

\* a finished bank of k Questions
NavBank(k) == [i \in 1..k |-> QuestionDict(NavTexts[i], ABCD, "A")]

\* a % b of Python for b > 0: the result has the sign of b
PyMod(a, b) == a % b

\* list[i] of Python: negative subscripts count from the end
PySubscript(list, i) ==
    IF 0 <= i /\ i < Len(list) THEN [error |-> "none", value |-> list[i + 1]]
    ELSE IF -Len(list) <= i /\ i < 0
    THEN [error |-> "none", value |-> list[Len(list) + i + 1]]
    ELSE [error |-> "IndexError", value |-> PyNone]

\* the subscript used as it came, without the modulo
ValidIndexNoWrap(index, total) == index

\* the modulo taken of index + 1
ValidIndexOffByOne(index, total) == PyMod(index + 1, total)

\* valid_index = index % self.total_questions, for total_questions > 0
ValidIndex(index, total) == PyMod(index, total)

\* get_question_at_index(index): the exception raised and the value returned
get_question_at_index(qs, total, index) ==
    IF total = 0 THEN [error |-> "ZeroDivisionError", value |-> PyNone]
    ELSE PySubscript(qs, ValidIndex(index, total))

\* new_index kept inside the range by clamping instead of wrapping
NewIndexClamped(current, direction, total) ==
    IF current + direction < 0 THEN 0
    ELSE IF current + direction > total - 1 THEN total - 1
    ELSE current + direction

\* new_index without the modulo
NewIndexNoWrap(current, direction, total) == current + direction

\* new_index wrapped into 1 .. total
NewIndexOneBased(current, direction, total) ==
    PyMod(current + direction - 1, total) + 1

\* new_index = (current_question_index + direction) % self.total_questions
NewIndex(current, direction, total) == PyMod(current + direction, total)

\* an empty bank answered with index 0 instead of the division
next_index_guarded(current, direction, total) ==
    IF total = 0 THEN [error |-> "none", value |-> 0]
    ELSE [error |-> "none", value |-> NewIndex(current, direction, total)]

\* the body of next_question_index: the exception raised, and the value
\* the cursor has afterwards
next_index(current, direction, total) ==
    IF total = 0 THEN [error |-> "ZeroDivisionError", value |-> current]
    ELSE [error |-> "none", value |-> NewIndex(current, direction, total)]

HasManager == nav_op # NoCall

\* QuizManager(questions)
NewQuizManager(k) ==
    /\ ~HasManager
    /\ questions' = NavBank(k)
    /\ total_questions' = Len(NavBank(k))
    /\ nav_op' = Call("__init__", k)
    /\ returned' = PyNone
    /\ shared' = FALSE
    /\ UNCHANGED << question_index, pc, variant, topic, num_questions,
                    vectorstore, llm, question_bank, slot, attempt, calls,
                    error, printed, backend, requested, topic_arg, queried,
                    exhausted, stub, prompt >>

\* quiz_manager.get_question_at_index(index)
GetQuestionAtIndex(index) ==
    /\ HasManager
    /\ nav_op' = Call("get_question_at_index", index)
    /\ LET r == get_question_at_index(questions, total_questions, index)
       IN  error' = r.error /\ returned' = r.value
    /\ UNCHANGED << questions, total_questions, question_index, shared, pc, variant,
                    topic, num_questions, vectorstore, llm, question_bank,
                    slot, attempt, calls, printed, backend, requested,
                    topic_arg, queried, exhausted, stub,
                    prompt >>

\* next_question_index that hands the new index back and stores nothing
NextQuestionIndexPure(direction) ==
    /\ HasManager
    /\ nav_op' = Call("next_question_index", direction)
    /\ LET r == next_index(question_index, direction, total_questions)
       IN  /\ error' = r.error
           /\ returned' = IF r.error = "none" THEN PyInt(r.value) ELSE PyNone
    /\ UNCHANGED << questions, total_questions, question_index, shared, pc, variant,
                    topic, num_questions, vectorstore, llm, question_bank,
                    slot, attempt, calls, printed, backend, requested,
                    topic_arg, queried, exhausted, stub,
                    prompt >>

\* quiz_manager.next_question_index(direction)
NextQuestionIndex(direction) ==
    /\ HasManager
    /\ nav_op' = Call("next_question_index", direction)
    /\ LET r == next_index(question_index, direction, total_questions)
       IN  /\ error' = r.error
           /\ question_index' = r.value
    /\ returned' = PyNone
    /\ UNCHANGED << questions, total_questions, shared, pc, variant, topic,
                    num_questions, vectorstore, llm, question_bank, slot,
                    attempt, calls, printed, backend, requested, topic_arg,
                    queried, exhausted, stub, prompt >>

\* the cursor may hold any integer when the navigation starts
InitNav ==
    /\ InitGenerator
    /\ stub = << >>
    /\ questions = << >>
    /\ total_questions = 0
    /\ question_index \in IndexInputs
    /\ nav_op = NoCall
    /\ returned = PyNone
    /\ shared = FALSE

NextNav ==
    \/ \E k \in 0..MaxTotal : NewQuizManager(k)
    \/ \E index \in IndexInputs : GetQuestionAtIndex(index)
    \/ \E direction \in DirectionInputs : NextQuestionIndex(direction)

SpecNav == InitNav /\ [][NextNav]_vars

----------------------------------------------------------------------------
(* The presentation layer: a quiz is generated, a QuizManager is built on   *)
(* the bank generate_quiz returned, and the generator may be run again      *)

\* bound of the model: the largest num_questions of that generator
MaxAppCount == 2

AppIndexInputs == -1 .. MaxAppCount

\* question_bank = generator.generate_quiz(); if question_bank:
\*     quiz_manager = QuizManager(question_bank)
NewQuizManagerOfBank ==
    /\ ~HasManager
    /\ variant = "quiz_generator"
    /\ pc = "done"
    /\ Truthy(PyList(Len(question_bank)))
    /\ questions' = question_bank
    /\ total_questions' = Len(question_bank)
    /\ shared' = TRUE
    /\ nav_op' = Call("__init__", Len(question_bank))
    /\ returned' = PyNone
    /\ UNCHANGED << question_index, pc, variant, topic, num_questions,
                    vectorstore, llm, question_bank, slot, attempt, calls,
                    error, printed, backend, requested, topic_arg, queried,
                    exhausted, stub, prompt >>

NextApp ==
    \/ \E n \in 1..MaxAppCount :
          Construct("quiz_generator", TopicNone, n, "populated")
    \/ StartQuiz
    \/ Attempt
    \/ NewQuizManagerOfBank
    \/ \E index \in AppIndexInputs : GetQuestionAtIndex(index)
    \/ \E direction \in DirectionInputs : NextQuestionIndex(direction)

\* the backend replays a script of MaxAppCount lines
InitApp ==
    /\ InitGenerator
    /\ InitNavigator
    /\ stub \in ScriptsOfLen(MaxAppCount)

SpecApp == InitApp /\ [][NextApp]_vars

----------------------------------------------------------------------------
(* Properties of the navigator                                              *)

\* r is the residue of index modulo total: it lies in 0..total-1 and
\* differs from index by a multiple of total
IsResidue(r, index, total) ==
    /\ r \in 0 .. total - 1
    /\ \E k \in -(MaxIndex + 1) .. (MaxIndex + 1) : index = k * total + r

GotQuestion == nav_op.op = "get_question_at_index"
Stepped     == nav_op.op = "next_question_index"

\* C14: on a bank that is not empty, get_question_at_index returns, for
\* every integer index, negative ones and ones past the end included, the
\* question at the position index mod total_questions, a position that
\* lies in 0 .. total_questions - 1.
C14_GetReturnsQuestionAtResidue ==
    (GotQuestion /\ total_questions > 0) =>
        /\ error = "none"
        /\ \E r \in 0 .. total_questions - 1 :
              /\ IsResidue(r, nav_op.arg, total_questions)
              /\ returned = questions[r + 1]

C14_Witness ==
    /\ GotQuestion
    /\ total_questions = 3
    /\ nav_op.arg = 5
    /\ returned = questions[3]

\* C15: on a bank that is not empty, stepping by +1 from the last index
\* total_questions - 1 gives index 0, and stepping by -1 from index 0
\* gives the last index.
C15_StepsWrapAround ==
    [][ (Stepped' /\ total_questions > 0) =>
          /\ (question_index = total_questions - 1 /\ nav_op'.arg = 1)
                => question_index' = 0
          /\ (question_index = 0 /\ nav_op'.arg = -1)
                => question_index' = total_questions - 1 ]_vars

C15_Witness ==
    /\ Stepped
    /\ nav_op.arg = -1
    /\ total_questions = 3
    /\ question_index = 2
    /\ error = "none"

\* C16: normalising an index that is already normalised leaves it as it
\* is, and asking for the question at the normalised index gives the same
\* question as asking for it at the original index.
C16_NormalisationIdempotent ==
    (HasManager /\ total_questions > 0) =>
        /\ \A i \in IndexInputs :
              LET v == ValidIndex(i, total_questions)
              IN  /\ ValidIndex(v, total_questions) = v
                  /\ get_question_at_index(questions, total_questions, v)
                       = get_question_at_index(questions, total_questions, i)
        /\ GotQuestion =>
              returned = get_question_at_index(questions, total_questions,
                            ValidIndex(nav_op.arg, total_questions)).value

C16_Witness ==
    /\ GotQuestion
    /\ total_questions = 2
    /\ nav_op.arg = -3
    /\ returned = questions[2]

\* C17: with an empty bank, get_question_at_index and next_question_index
\* both fail with an error in place of a value, and the cursor is as it
\* was before the call.
C17_EmptyBankFails ==
    [][ ((GotQuestion' \/ Stepped') /\ total_questions = 0) =>
          /\ error' = "ZeroDivisionError"
          /\ returned' = PyNone
          /\ question_index' = question_index ]_vars

C17_Witness ==
    /\ Stepped
    /\ total_questions = 0
    /\ error = "ZeroDivisionError"
    /\ question_index = 5

----------------------------------------------------------------------------
(* Properties of the topic                                                  *)

\* topic.strip() of Python, on the topic strings of the model
Trim(t) ==
    CASE t = ""               -> ""
      [] t = "   "            -> ""
      [] t = "Photosynthesis" -> "Photosynthesis"
      [] t = DefaultTopic     -> DefaultTopic

Constructed == pc \notin {"new", "ctor_failed"}

\* C19: a generator constructed with an empty or absent topic uses
\* "General Knowledge" in every attempt, and one constructed with a
\* non-empty topic uses that very topic, unchanged, in every attempt.
C19_TopicDefaulting ==
    Constructed =>
        /\ topic = IF topic_arg.none \/ topic_arg.text = ""
                   THEN "General Knowledge" ELSE topic_arg.text
        /\ queried.asked => queried.topic = topic

C19_WitnessDefault ==
    /\ Constructed
    /\ topic_arg = TopicStr("")
    /\ queried = Query("General Knowledge")
    /\ calls = 2

C19_Witness ==
    /\ Constructed
    /\ topic_arg = TopicStr("Photosynthesis")
    /\ queried = Query("Photosynthesis")
    /\ calls = 2

\* C20: whatever topic the constructor accepted, whitespace-only strings
\* included, the retriever is never queried with a topic that is blank
\* once trimmed.
C20_QueriedTopicNotBlank ==
    queried.asked => Trim(queried.topic) # ""

\* the topics other than whitespace-only ones are never blank when they
\* reach the retriever
NonBlankArgQueriedNotBlank ==
    (queried.asked /\ (topic_arg.none \/ Trim(topic_arg.text) = topic_arg.text))
        => Trim(queried.topic) # ""

----------------------------------------------------------------------------
(* Properties of retrieval                                                  *)

\* a call of generate_question_with_vectorstore got as far as asking the
\* unpopulated collection for its retriever, and the run ended there
RetrievalOnUnpopulated ==
    /\ Constructed
    /\ vectorstore = "unpopulated"
    /\ llm # "None"
    /\ pc = "raised"

\* C21: retrieval against a collection that was never populated fails with
\* NotReady: obtaining the retriever raises an error instead of yielding a
\* value, and no backend invocation follows.
C21_UnpopulatedRetrieverRaises ==
    RetrievalOnUnpopulated =>
        /\ as_retriever(vectorstore).error # "none"
        /\ calls = 0
        /\ ~queried.asked

\* what does hold: the call ends with an exception raised further on, and
\* the backend is never invoked
UnpopulatedNeverInvokesBackend ==
    (Constructed /\ vectorstore = "unpopulated") =>
        /\ calls = 0
        /\ ~queried.asked
        /\ backend = "none"
        /\ pc # "done" \/ num_questions < 1
        /\ RetrievalOnUnpopulated => error \in {"TypeError", "Exception"}

----------------------------------------------------------------------------
(* Properties of the prompt                                                 *)

\* C22: every prompt sent to the backend, in every attempt and in both
\* variants of QuizGenerator, is built from the instruction preamble that
\* names the four output fields question, choices, answer and explanation,
\* together with the topic and the retrieved context.
C22_PromptNamesFourFields ==
    prompt.sent =>
        /\ prompt.names = {"question", "choices", "answer", "explanation"}
        /\ prompt.topic = topic
        /\ prompt.context = "retrieved"

\* in quiz_generator.py every prompt is built so
QuizGeneratorPromptNamesFourFields ==
    (prompt.sent /\ variant = "quiz_generator") =>
        /\ prompt.names = {"question", "choices", "answer", "explanation"}
        /\ prompt.topic = topic
        /\ prompt.context = "retrieved"

\* in either variant the prompt carries the topic and the context
PromptCarriesTopicAndContext ==
    /\ prompt.sent = queried.asked
    /\ prompt.sent => prompt.topic = queried.topic /\ prompt.context = "retrieved"

----------------------------------------------------------------------------
(* Properties of successive runs                                            *)

\* generate_quiz is being entered
AtEntry == pc \in {"ready", "done", "raised"} /\ variant = "quiz_generator"

\* the first pass of a run that is not the generator's first: an earlier
\* run initialised the LLM, and against this stub its first pass accepted
\* the stub's first response
SecondRunFirstPass ==
    /\ Running
    /\ slot = 1 /\ attempt = 1
    /\ llm = "VertexAI"
    /\ vectorstore = "populated"
    /\ stub # << >>
    /\ SchemaValid(stub[1])
    /\ TextOf(stub[1]) # ""

\* C23: every generate_quiz run starts from an empty bank; what an earlier
\* run on the same generator accepted is not in the bank when the next run
\* starts and is no duplicate in it, so a text accepted in run 1 is accepted
\* again in run 2.
C23_RunStartsFromEmptyBank ==
    [][ /\ AtEntry => question_bank' = << >>
        /\ SecondRunFirstPass =>
              /\ question_bank = << >>
              /\ question_bank' = << json_loads(stub[1]).value >> ]_vars

C23_Witness ==
    /\ SecondRunFirstPass
    /\ question_bank = << >>
    /\ calls = 0
    /\ num_questions = 2

----------------------------------------------------------------------------
(* Properties of validate_question                                          *)

\* the candidates that carry a question text: what the script lines decode
\* to, and a Question with an empty text
Candidates ==
    {json_loads(l).value : l \in {RawQ1, RawQ1Lower, RawQ1Space, RawQ2, RawEmptyText}}

TextsOf(bank) == {bank[i].question : i \in 1..Len(bank)}

\* C24: validate_question is true exactly when the candidate's text is not
\* empty and is equal, character for character, to the text of no Question
\* in the bank; nothing is normalised, so texts that differ only in letter
\* case or in trailing whitespace are accepted side by side.
C24_ValidateIsExactTextMatch ==
    InRun =>
        \A c \in Candidates :
            /\ validate_question(question_bank, c)
                 <=> (c.question # "" /\ c.question \notin TextsOf(question_bank))
            /\ (question_bank # << >> /\ TextsOf(question_bank) \subseteq {"Q1"}
                  /\ c.question \in {"q1", "Q1 "})
                 => validate_question(question_bank, c)

C24_Witness ==
    /\ pc = "done"
    /\ Len(question_bank) = 3
    /\ TextsOf(question_bank) = {"Q1", "q1", "Q1 "}

----------------------------------------------------------------------------
(* Properties of the attempt budget                                         *)

\* the step printed that the response was turned down: a duplicate text, an
\* empty text or a falsy parsed value, or an output that is not JSON
TurnedDown == printed' \in {MsgRejected, MsgDecode}

\* C25: within a slot a duplicate, an empty or falsy parsed value and a
\* malformed output each use up exactly one attempt and lead to attempt + 1
\* while attempt < 10; the attempt number starts again at 1 in every new
\* slot, so no slot inherits attempts another one left unused, and a slot
\* that was left is never entered again.
C25_OneAttemptPerFailure ==
    [][ Running =>
          /\ (TurnedDown /\ attempt < 10) =>
                /\ pc' = "running"
                /\ slot' = slot
                /\ attempt' = attempt + 1
                /\ calls' = calls + 1
          /\ (TurnedDown /\ attempt = 10) =>
                /\ calls' = calls + 1
                /\ pc' = "done" \/ (pc' = "running" /\ slot' = slot + 1)
          /\ (pc' = "running" /\ slot' # slot) =>
                /\ slot' = slot + 1
                /\ attempt' = 1 ]_vars

\* slot 1 used up its ten attempts, slot 2 was filled at its third, and
\* slot 3 starts again at attempt 1
C25_Witness ==
    /\ Running
    /\ slot = 3 /\ attempt = 1
    /\ exhausted = 1
    /\ Len(question_bank) = 1
    /\ calls = 13

----------------------------------------------------------------------------
(* Termination                                                              *)

\* C26: as long as every backend invocation comes back, a generate_quiz run
\* always ends: whatever the backend produces, the run reaches its return
\* or leaves with an exception, because every step that does not end it
\* either moves to the next slot (a question was accepted, or the slot had
\* no attempt left) or raises the attempt number of the current slot.
C26_RunTerminates ==
    /\ Running ~> (pc \in {"done", "raised"})
    /\ [][ Running =>
             \/ pc' \in {"done", "raised"}
             \/ (slot' = slot + 1 /\ Len(question_bank') = Len(question_bank) + 1)
             \/ (slot' = slot + 1 /\ attempt = 10)
             \/ (slot' = slot /\ attempt' > attempt) ]_vars

\* the longest run for two questions has ended: both slots used up their
\* ten attempts
C26_Witness ==
    /\ pc = "done"
    /\ num_questions = 2
    /\ exhausted = 2
    /\ calls = 20

----------------------------------------------------------------------------
(* Properties of a returned bank                                            *)

\* C27: the bank generate_quiz returned does not change once the run is
\* over: a later generate_quiz on the same generator and every navigation
\* operation of the QuizManager built on it leave its length, order and
\* contents as they were, so total_questions stays the length of that bank.
C27_ReturnedBankImmutable ==
    [][ /\ (~HasManager /\ HasManager') =>
              /\ questions' = question_bank
              /\ total_questions' = Len(question_bank)
        /\ HasManager =>
              /\ questions' = questions
              /\ total_questions' = Len(questions') ]_vars

\* a later run on the same generator has started afresh and has stored its
\* first Question, a navigation step was taken, and the QuizManager still
\* holds the two Questions of the earlier run
C27_Witness ==
    /\ HasManager
    /\ Stepped
    /\ Running
    /\ Len(questions) = 2
    /\ Len(question_bank) = 1
    /\ total_questions = 2

----------------------------------------------------------------------------
(* Properties of the growing bank                                           *)

\* C28: during a run the bank only grows, by one accepted Question put at
\* its end: every bank the run passes through is a prefix of the bank it
\* returns, and an attempt that fails (duplicate, empty text, malformed
\* JSON) leaves the bank exactly as it was.
C28_BankGrowsByAppend ==
    [][ Running =>
          /\ \/ question_bank' = question_bank
             \/ /\ Len(question_bank') = Len(question_bank) + 1
                /\ SubSeq(question_bank', 1, Len(question_bank)) = question_bank
                /\ printed' = MsgAccepted
          /\ TurnedDown => question_bank' = question_bank ]_vars

\* a response was turned down in slot 3 and the two Questions stored before
\* are still there
C28_Witness ==
    /\ Running
    /\ printed = MsgRejected
    /\ slot = 3 /\ attempt = 2
    /\ Len(question_bank) = 2
    /\ question_bank[1].question = "Q2"
    /\ question_bank[2].question = "q1"

----------------------------------------------------------------------------
(* Properties of sequences of navigation steps                              *)

InRange(c) == c \in 0 .. total_questions - 1

\* C29: on a bank of total > 0 questions, whatever integer the cursor held
\* at first, the cursor stored after any non-empty sequence of
\* next_question_index calls with direction +1 or -1 lies in 0 .. total - 1.
C29_CursorStaysInRange ==
    [][ total_questions > 0 =>
          /\ Stepped' => InRange(question_index')
          /\ InRange(question_index) => InRange(question_index') ]_vars

C29_Witness ==
    /\ Stepped
    /\ nav_op.arg = 1
    /\ total_questions = 2
    /\ question_index = 0
    /\ error = "none"

\* the cursor after k next steps (+1) from cursor c
RECURSIVE NextSteps(_, _, _)
NextSteps(c, k, total) ==
    IF k = 0 THEN c ELSE NewIndex(NextSteps(c, k - 1, total), 1, total)

\* C30: from every cursor in 0 .. total - 1 a next step followed by a
\* previous step gives the cursor back (and so does a previous step
\* followed by a next step), and total next steps in a row visit every
\* index once and end at the cursor they started from.
C30_StepsInverseAndCyclic ==
    (HasManager /\ total_questions > 0) =>
        \A c \in 0 .. total_questions - 1 :
            /\ NewIndex(NewIndex(c, 1, total_questions), -1, total_questions) = c
            /\ NewIndex(NewIndex(c, -1, total_questions), 1, total_questions) = c
            /\ {NextSteps(c, k, total_questions) : k \in 1 .. total_questions}
                 = 0 .. total_questions - 1
            /\ NextSteps(c, total_questions, total_questions) = c
            /\ \A k \in 1 .. total_questions - 1 :
                  NextSteps(c, k, total_questions) # c

C30_Witness ==
    /\ Stepped
    /\ nav_op.arg = -1
    /\ total_questions = 3
    /\ question_index = 0
    /\ error = "none"

----------------------------------------------------------------------------
(* Properties of LLM initialisation in generate_question.py                 *)

\* the latest call of generate_question_with_vectorstore saw init_llm fail
LLMInitFailed == variant = "generate_question" /\ printed = MsgLLMInit

\* C31: in generate_question.py, whenever the initialisation of the LLM
\* fails during a call of generate_question_with_vectorstore, that call
\* raises an error, retrieves nothing and does not invoke the backend, also
\* when an earlier call on the same generator had initialised the LLM.
C31_LLMInitFailureIsFatal ==
    LLMInitFailed =>
        /\ pc = "raised"
        /\ calls = 0
        /\ ~queried.asked
        /\ ~prompt.sent

\* what does hold: a failure while no earlier call left an LLM behind ends
\* the call with an exception before anything is retrieved
FirstLLMInitFailureIsFatal ==
    (LLMInitFailed /\ llm = "None") =>
        /\ pc = "raised"
        /\ error = "Exception"
        /\ calls = 0
        /\ ~queried.asked
        /\ ~prompt.sent

====
